---- MODULE Spec2Model ----
(***************************************************************************)
(* Gesture-Particle-Morph: the HandManager component (landmark classifier  *)
(* and gesture debouncer, src/unnamed/part_001), the App state it writes   *)
(* (src/App.tsx) and the Particles component (target fields and the morph  *)
(* step, src/unnamed/part_000 and part_002).                               *)
(*                                                                         *)
(* Numbers.  Landmark coordinates are integers (a scaled grid of the       *)
(* normalised image plane), so the factors 1.1 and 0.6 are compared as     *)
(* 11/10 and 6/10.  A Float32Array entry is an integer number of grid      *)
(* quanta: a position quantum is 10/PosScale world units, a colour one is  *)
(* 1/ColorScale.  A store into a Float32Array rounds the exact value to    *)
(* the nearest grid value, ties to even, as the typed array does.          *)
(***************************************************************************)
EXTENDS Integers, Sequences, FiniteSets

VARIABLES
    gestureBuffer,       \* HandManager: gestureBuffer.current
    lastEmittedGesture,  \* HandManager: lastEmittedGesture.current
    handState,           \* App: the handState of useState
    frame,               \* predictWebcam: what the last processed frame computed
    loop,                \* predictWebcam: "scheduled" while a next call is pending
    targets,             \* Particles: the memoised targets, per gesture
    currentPositions,    \* Particles: currentPositions.current
    currentColors        \* Particles: currentColors.current

vars == <<gestureBuffer, lastEmittedGesture, handState, frame, loop,
          targets, currentPositions, currentColors>>

handVars == <<gestureBuffer, lastEmittedGesture, handState, frame, loop>>
particleVars == <<targets, currentPositions, currentColors>>

-----------------------------------------------------------------------------
(* types.ts *)

GestureType == {"RESET", "ONE", "TWO", "THREE", "LOVE"}

HandState == [gesture : GestureType, isTracking : BOOLEAN]

-----------------------------------------------------------------------------
(* HandManager: the landmark classifier *)

BUFFER_SIZE == 3

\* The landmark count of a well-formed hand.
LandmarkCount == 21

\* lm[i] of the source is 0-based.
At(lm, i) == lm[i + 1]

\* The landmark indices predictWebcam reads before it classifies.
LandmarkReads == {0, 4, 5, 6, 8, 10, 12, 14, 16, 18, 20}

\* Reading lm[i] past the end gives undefined, and distSq then reads .x of
\* undefined: a TypeError.
ThrowsTypeError(lm) == \E i \in LandmarkReads : i >= Len(lm)

distSq(p1, p2) ==
    (p1[1] - p2[1]) * (p1[1] - p2[1]) + (p1[2] - p2[2]) * (p1[2] - p2[2])

palmScaleSq(lm) == distSq(At(lm, 0), At(lm, 5))

\* distSq(wrist, tip) > distSq(wrist, pip) * 1.1
isFingerOpen(lm, tipIdx, pipIdx) ==
    10 * distSq(At(lm, 0), At(lm, tipIdx)) > 11 * distSq(At(lm, 0), At(lm, pipIdx))

\* distSq(thumb tip, index MCP) > palmScaleSq * 0.6
isThumbOpen(lm) == 10 * distSq(At(lm, 4), At(lm, 5)) > 6 * palmScaleSq(lm)

FingerStates(lm) ==
    [thumb  |-> isThumbOpen(lm),
     index  |-> isFingerOpen(lm, 8, 6),
     middle |-> isFingerOpen(lm, 12, 10),
     ring   |-> isFingerOpen(lm, 16, 14),
     pinky  |-> isFingerOpen(lm, 20, 18)]

NoFingers ==
    [thumb |-> FALSE, index |-> FALSE, middle |-> FALSE, ring |-> FALSE,
     pinky |-> FALSE]

\* A mis-ordered rule chain: the peace rule tested before the Euro-3 rule.
ClassifyPeaceFirst(o) ==
    IF o.index /\ o.middle /\ o.ring /\ o.pinky THEN "LOVE"
    ELSE IF o.index /\ o.middle /\ o.ring /\ ~o.pinky THEN "THREE"
    ELSE IF o.index /\ o.middle /\ ~o.ring /\ ~o.pinky THEN "TWO"
    ELSE IF o.thumb /\ o.index /\ o.middle /\ ~o.ring /\ ~o.pinky THEN "THREE"
    ELSE IF o.thumb /\ o.index /\ ~o.middle /\ ~o.ring /\ ~o.pinky THEN "TWO"
    ELSE IF o.index /\ ~o.middle /\ ~o.ring /\ ~o.pinky THEN "ONE"
    ELSE "RESET"

\* The Euro-3 rule without its thumb test.
ClassifyEuroNoThumb(o) ==
    IF o.index /\ o.middle /\ o.ring /\ o.pinky THEN "LOVE"
    ELSE IF o.index /\ o.middle /\ o.ring /\ ~o.pinky THEN "THREE"
    ELSE IF o.index /\ o.middle /\ ~o.ring /\ ~o.pinky THEN "THREE"
    ELSE IF o.thumb /\ o.index /\ ~o.middle /\ ~o.ring /\ ~o.pinky THEN "TWO"
    ELSE IF o.index /\ ~o.middle /\ ~o.ring /\ ~o.pinky THEN "ONE"
    ELSE "RESET"

\* The if / else-if chain over the five finger states.
Classify(o) ==
    IF o.index /\ o.middle /\ o.ring /\ o.pinky THEN "LOVE"
    ELSE IF o.index /\ o.middle /\ o.ring /\ ~o.pinky THEN "THREE"
    ELSE IF o.thumb /\ o.index /\ o.middle /\ ~o.ring /\ ~o.pinky THEN "THREE"
    ELSE IF o.index /\ o.middle /\ ~o.ring /\ ~o.pinky THEN "TWO"
    ELSE IF o.thumb /\ o.index /\ ~o.middle /\ ~o.ring /\ ~o.pinky THEN "TWO"
    ELSE IF o.index /\ ~o.middle /\ ~o.ring /\ ~o.pinky THEN "ONE"
    ELSE "RESET"

-----------------------------------------------------------------------------
(* HandManager: the frames the hand tracker can deliver *)

\* A hand at rest: the wrist at the origin, every landmark at the index MCP
\* except the four PIP joints.
BaseLandmark(i) ==
    CASE i = 0  -> <<0, 0>>
      [] i = 6  -> <<0, 6>>
      [] i = 10 -> <<1, 6>>
      [] i = 14 -> <<2, 6>>
      [] i = 18 -> <<3, 5>>
      [] OTHER  -> <<0, 4>>

\* The places a fingertip is seen at: curled, stretched, and (index only) just
\* beyond the PIP joint but within the 1.1 margin.
TipPlaces ==
    [t \in {4, 8, 12, 16, 20} |->
        CASE t = 4  -> {<<1, 4>>, <<4, 3>>}
          [] t = 8  -> {<<0, 5>>, <<0, 8>>, <<1, 6>>}
          [] t = 12 -> {<<1, 5>>, <<1, 9>>}
          [] t = 16 -> {<<2, 5>>, <<2, 8>>}
          [] t = 20 -> {<<3, 4>>, <<3, 7>>}]

TipChoices ==
    {[t \in {4, 8, 12, 16, 20} |->
         CASE t = 4 -> a [] t = 8 -> b [] t = 12 -> c [] t = 16 -> d [] t = 20 -> e] :
     a \in TipPlaces[4], b \in TipPlaces[8], c \in TipPlaces[12],
     d \in TipPlaces[16], e \in TipPlaces[20]}

HandOf(c, n) ==
    [k \in 1..n |-> IF (k - 1) \in DOMAIN c THEN c[k - 1] ELSE BaseLandmark(k - 1)]

\* Landmark lists of the wrong length: empty, cut after the index MCP, one short.
ShortCounts == {0, 6, LandmarkCount - 1}

CurledHand == [t \in {4, 8, 12, 16, 20} |-> BaseLandmark(0)]

\* results.landmarks: no hand, or one hand (numHands: 1).
Detections ==
    {<< >>}
      \cup {<<HandOf(c, LandmarkCount)>> : c \in TipChoices}
      \cup {<<HandOf(CurledHand, n)>> : n \in ShortCounts}

-----------------------------------------------------------------------------
(* HandManager: signal smoothing *)

\* push, then shift when the buffer is longer than BUFFER_SIZE
Push(buf, g) ==
    LET b == Append(buf, g)
    IN  IF Len(b) > BUFFER_SIZE THEN Tail(b) ELSE b

\* The forEach scan from entry i on, given counts, maxCount and smoothGesture so
\* far: a label takes over only when its count exceeds maxCount.
RECURSIVE ModeScan(_, _, _, _, _)
ModeScan(buf, i, counts, maxCount, smoothGesture) ==
    IF i > Len(buf)
    THEN [maxCount |-> maxCount, smoothGesture |-> smoothGesture]
    ELSE IF counts[buf[i]] + 1 > maxCount
         THEN ModeScan(buf, i + 1, [counts EXCEPT ![buf[i]] = @ + 1],
                       counts[buf[i]] + 1, buf[i])
         ELSE ModeScan(buf, i + 1, [counts EXCEPT ![buf[i]] = @ + 1],
                       maxCount, smoothGesture)

\* Mode calculation: smoothGesture starts as the last emitted gesture.
Mode(buf, last) == ModeScan(buf, 1, [g \in GestureType |-> 0], 0, last)

\* A threshold of "at least a third of the buffer", which one frame reaches.
OverThird(maxCount) == 3 * maxCount >= BUFFER_SIZE

\* maxCount > BUFFER_SIZE / 2
OverHalf(maxCount) == 2 * maxCount > BUFFER_SIZE

\* The end of a processed frame: the threshold, the comparison with the last
\* emitted gesture, onHandUpdate (App's setHandState) and the frame's record.
\* What a call of predictWebcam computed: hands (results.landmarks.length), the
\* length of the detected hand's landmark list, the finger states, the raw
\* gesture, and whether onHandUpdate was called.
FrameRecord(landmarks, open, detectedGesture, emitted) ==
    [hands |-> Len(landmarks),
     landmarkCount |-> IF Len(landmarks) > 0 THEN Len(landmarks[1]) ELSE 0,
     open |-> open, detectedGesture |-> detectedGesture, emitted |-> emitted]

\* A comparison dropped: every frame over the threshold emits again.
EmitRepeats(landmarks, open, detectedGesture, buf, s) ==
    IF OverHalf(s.maxCount)
    THEN /\ gestureBuffer' = buf
         /\ lastEmittedGesture' = s.smoothGesture
         /\ handState' = [gesture |-> s.smoothGesture, isTracking |-> Len(landmarks) > 0]
         /\ frame' = FrameRecord(landmarks, open, detectedGesture, TRUE)
    ELSE /\ gestureBuffer' = buf
         /\ UNCHANGED <<lastEmittedGesture, handState>>
         /\ frame' = FrameRecord(landmarks, open, detectedGesture, FALSE)

\* isTracking taken from the emitted gesture instead of from the frame.
EmitTrackingByGesture(landmarks, open, detectedGesture, buf, s) ==
    IF OverHalf(s.maxCount) /\ s.smoothGesture # lastEmittedGesture
    THEN /\ gestureBuffer' = buf
         /\ lastEmittedGesture' = s.smoothGesture
         /\ handState' = [gesture |-> s.smoothGesture,
                          isTracking |-> s.smoothGesture # "RESET"]
         /\ frame' = FrameRecord(landmarks, open, detectedGesture, TRUE)
    ELSE /\ gestureBuffer' = buf
         /\ UNCHANGED <<lastEmittedGesture, handState>>
         /\ frame' = FrameRecord(landmarks, open, detectedGesture, FALSE)

\* The emission without the test of maxCount against BUFFER_SIZE / 2.
EmitAnyMode(landmarks, open, detectedGesture, buf, s) ==
    IF s.smoothGesture # lastEmittedGesture
    THEN /\ gestureBuffer' = buf
         /\ lastEmittedGesture' = s.smoothGesture
         /\ handState' = [gesture |-> s.smoothGesture, isTracking |-> Len(landmarks) > 0]
         /\ frame' = FrameRecord(landmarks, open, detectedGesture, TRUE)
    ELSE /\ gestureBuffer' = buf
         /\ UNCHANGED <<lastEmittedGesture, handState>>
         /\ frame' = FrameRecord(landmarks, open, detectedGesture, FALSE)

\* The emission without lastEmittedGesture.current being set.
EmitWithoutRecord(landmarks, open, detectedGesture, buf, s) ==
    IF OverHalf(s.maxCount) /\ s.smoothGesture # lastEmittedGesture
    THEN /\ gestureBuffer' = buf
         /\ UNCHANGED lastEmittedGesture
         /\ handState' = [gesture |-> s.smoothGesture, isTracking |-> Len(landmarks) > 0]
         /\ frame' = FrameRecord(landmarks, open, detectedGesture, TRUE)
    ELSE /\ gestureBuffer' = buf
         /\ UNCHANGED <<lastEmittedGesture, handState>>
         /\ frame' = FrameRecord(landmarks, open, detectedGesture, FALSE)

\* if (maxCount > BUFFER_SIZE / 2 && smoothGesture !== lastEmittedGesture.current)
Emit(landmarks, open, detectedGesture, buf, s) ==
    IF OverHalf(s.maxCount) /\ s.smoothGesture # lastEmittedGesture
    THEN /\ gestureBuffer' = buf
         /\ lastEmittedGesture' = s.smoothGesture
         /\ handState' = [gesture |-> s.smoothGesture, isTracking |-> Len(landmarks) > 0]
         /\ frame' = FrameRecord(landmarks, open, detectedGesture, TRUE)
    ELSE /\ gestureBuffer' = buf
         /\ UNCHANGED <<lastEmittedGesture, handState>>
         /\ frame' = FrameRecord(landmarks, open, detectedGesture, FALSE)

Smooth(landmarks, open, detectedGesture, buf) ==
    Emit(landmarks, open, detectedGesture, buf, Mode(buf, lastEmittedGesture))

\* What predictWebcam computes from results.landmarks before the smoothing: the
\* raw gesture, or the TypeError.
Detect(landmarks) ==
    IF Len(landmarks) = 0
    THEN [landmarks |-> landmarks, error |-> FALSE, open |-> NoFingers,
          detectedGesture |-> "RESET"]
    ELSE IF ThrowsTypeError(landmarks[1])
    THEN [landmarks |-> landmarks, error |-> TRUE, open |-> NoFingers,
          detectedGesture |-> "RESET"]
    ELSE [landmarks |-> landmarks, error |-> FALSE,
          open |-> FingerStates(landmarks[1]),
          detectedGesture |-> Classify(FingerStates(landmarks[1]))]

\* One call of predictWebcam on a video that has data (readyState >= 2), d
\* being what it detected.
ProcessFrame(d) ==
    IF d.error
    THEN \* the TypeError leaves predictWebcam before the buffer is touched and
         \* before requestAnimationFrame is called
         /\ frame' = FrameRecord(d.landmarks, d.open, d.detectedGesture, FALSE)
         /\ loop' = "stopped"
         /\ UNCHANGED <<gestureBuffer, lastEmittedGesture, handState>>
    ELSE /\ Smooth(d.landmarks, d.open, d.detectedGesture,
                   Push(gestureBuffer, d.detectedGesture))
         /\ loop' = "scheduled"

\* No hand, a fist, a hand cut short, and one well-formed pose for a gesture of
\* each morph speed (ONE and LOVE).
PoseOf(gesture) ==
    CHOOSE c \in TipChoices :
        Classify(FingerStates(HandOf(c, LandmarkCount))) = gesture

PoseDetections ==
    {<< >>, <<HandOf(CurledHand, LandmarkCount)>>, <<HandOf(CurledHand, 6)>>}
      \cup {<<HandOf(PoseOf(gesture), LandmarkCount)>> : gesture \in {"ONE", "LOVE"}}

Detected == {Detect(landmarks) : landmarks \in Detections}
PoseDetected == {Detect(landmarks) : landmarks \in PoseDetections}

\* predictWebcam, run by onLoadedData and then by each animation frame, over
\* every frame of Detections.  A video that has no data yet (readyState below 2)
\* only schedules the next call.
PredictWebcam ==
    /\ loop = "scheduled"
    /\ \/ \E d \in Detected : ProcessFrame(d)
       \/ UNCHANGED handVars
    /\ UNCHANGED particleVars

\* predictWebcam over the frames of PoseDetections.
PredictWebcamPoses ==
    /\ loop = "scheduled"
    /\ \/ \E d \in PoseDetected : ProcessFrame(d)
       \/ UNCHANGED handVars
    /\ UNCHANGED particleVars

-----------------------------------------------------------------------------
(* particleUtils: Float32Array stores and Math.random *)

PARTICLE_COUNT == 1

\* n / d rounded to the nearest integer, ties to even (d > 0): the store of an
\* exact value into a Float32Array entry.
Fround(n, d) ==
    LET q == n \div d
        r == n % d
    IN  IF 2 * r < d THEN q
        ELSE IF 2 * r > d THEN q + 1
        ELSE IF q % 2 = 0 THEN q ELSE q + 1

\* The colour quanta of the value 1.0, and the position quanta of 10 world units.
ColorScale == 8
PosScale == 10

\* A length of n / d world units, stored: in position quanta.
World(n, d) == Fround(n * PosScale, d * 10)

\* Math.random() returns a quarter: 0, 1/4, 1/2 or 3/4.  The generator is
\* deterministic from its seed: its k-th value (k = 0, 1, ...) is Random(seed, k)
\* quarters.
Seeds == 0..1

Random(seed, k) == (seed + k) % 4

\* 10 * Math.cbrt(u), for u in quarters: 0, 6.30, 7.94, 9.09.
TenCbrt(u) == <<0, 6, 8, 9>>[u + 1]

\* theta = u * 2 * PI, for u in quarters.
CosTheta(u) == <<1, 0, -1, 0>>[u + 1]
SinTheta(u) == <<0, 1, 0, -1>>[u + 1]

\* phi = Math.acos(2 * u - 1): cos(phi) = 2u - 1 in halves, and sin(phi) in
\* thousandths (0, 0.866, 1, 0.866).
TwoCosPhi(u) == <<-2, -1, 0, 1>>[u + 1]
SinPhiMilli(u) == <<0, 866, 1000, 866>>[u + 1]

\* new Float32Array(n)
Zeros(n) == [k \in 1..n |-> 0]

\* The particle and the component (both from 0) that entry k (from 1) of a
\* positions or colors array belongs to: entry 3i + j of the source's arrays.
ParticleOf(k) == (k - 1) \div 3
ComponentOf(k) == (k - 1) % 3

\* generateCloudParticles, its first Math.random() being the generator's k0-th.
generateCloudParticles(particleCount, seed, k0) ==
    LET r(i)     == TenCbrt(Random(seed, k0 + 3 * i))
        theta(i) == Random(seed, k0 + 3 * i + 1)
        phi(i)   == Random(seed, k0 + 3 * i + 2)
        pos(i, j) ==
            CASE j = 0 -> World(r(i) * SinPhiMilli(phi(i)) * CosTheta(theta(i)), 1000)
              [] j = 1 -> World(r(i) * SinPhiMilli(phi(i)) * SinTheta(theta(i)), 1000)
              [] j = 2 -> World(r(i) * TwoCosPhi(phi(i)), 2)
        \* 0.1, 0.15, 0.2
        col(i, j) ==
            CASE j = 0 -> Fround(ColorScale * 10, 100)
              [] j = 1 -> Fround(ColorScale * 15, 100)
              [] j = 2 -> Fround(ColorScale * 20, 100)
    IN  [positions |-> [k \in 1..(particleCount * 3) |->
                            pos(ParticleOf(k), ComponentOf(k))],
         colors    |-> [k \in 1..(particleCount * 3) |->
                            col(ParticleOf(k), ComponentOf(k))]]

\* What the canvas holds after the text is drawn: its width and height, and the
\* pixels brighter than the threshold, in index order, each with its colour
\* (0..255).  The bitmaps are small stand-ins for the 120px glyphs.
White == <<255, 255, 255>>
Red == <<255, 0, 0>>

Raster(text) ==
    CASE text = "1" ->
           [width |-> 2, height |-> 2, validPixels |-> <<1, 3>>,
            pixelColors |-> <<White, White>>]
      [] text = "2" ->
           [width |-> 2, height |-> 2, validPixels |-> <<0, 1, 2>>,
            pixelColors |-> <<White, White, White>>]
      [] text = "3" ->
           [width |-> 2, height |-> 2, validPixels |-> <<0, 3>>,
            pixelColors |-> <<White, White>>]
      [] OTHER ->
           [width |-> 4, height |-> 2, validPixels |-> <<0, 1, 4, 6, 7>>,
            pixelColors |-> <<White, Red, White, Red, White>>]

\* A canvas on which nothing was lit.
Unlit(text) == [Raster(text) EXCEPT !.validPixels = << >>, !.pixelColors = << >>]

targetWidth == 20

\* The no-context return with arrays of particleCount entries.
NoContextFieldShort(particleCount) ==
    [positions |-> Zeros(particleCount), colors |-> Zeros(particleCount)]

\* generateTextParticles: the return when canvas.getContext('2d') is null.
NoContextField(particleCount) ==
    [positions |-> Zeros(particleCount * 3), colors |-> Zeros(particleCount * 3)]

\* generateTextParticles, given the context (or none), the canvas after drawing,
\* and the place of its first Math.random() in the generator's sequence.
generateTextParticles(particleCount, ctx, canvas, seed, k0) ==
    IF ~ctx THEN NoContextField(particleCount)
    ELSE IF Len(canvas.validPixels) = 0
    THEN generateCloudParticles(particleCount, seed, k0)
    ELSE LET \* Math.floor(Math.random() * validPixels.length), from 0
             sampleIdx(i) == (Random(seed, k0 + i) * Len(canvas.validPixels)) \div 4
             pixelIndex(i) == canvas.validPixels[sampleIdx(i) + 1]
             x(i) == pixelIndex(i) % canvas.width
             y(i) == pixelIndex(i) \div canvas.width
             \* (x - width / 2) * scale, scale = targetWidth / width
             pos(i, j) ==
                 CASE j = 0 -> World((2 * x(i) - canvas.width) * targetWidth,
                                     2 * canvas.width)
                   [] j = 1 -> World(-(2 * y(i) - canvas.height) * targetWidth,
                                     2 * canvas.width)
                   [] j = 2 -> 0
             col(i, j) ==
                 Fround(canvas.pixelColors[sampleIdx(i) + 1][j + 1] * ColorScale, 255)
         IN  [positions |-> [k \in 1..(particleCount * 3) |->
                                 pos(ParticleOf(k), ComponentOf(k))],
              colors    |-> [k \in 1..(particleCount * 3) |->
                                 col(ParticleOf(k), ComponentOf(k))]]

-----------------------------------------------------------------------------
(* Experience: the Particles component *)

Texts == [ONE |-> "1", TWO |-> "2", THREE |-> "3", LOVE |-> "I love U"]

\* useMemo: the five targets, generated in the order RESET, ONE, TWO, THREE,
\* LOVE.  ctx: whether a 2D context is to be had; lit: whether drawing lights
\* any pixel.
Targets(seed, ctx, lit) ==
    LET used(text) == IF ~ctx THEN 0
                      ELSE IF lit THEN PARTICLE_COUNT ELSE 3 * PARTICLE_COUNT
        canvas(text) == IF lit THEN Raster(text) ELSE Unlit(text)
        k1 == 3 * PARTICLE_COUNT
        k2 == k1 + used("1")
        k3 == k2 + used("2")
        k4 == k3 + used("3")
    IN  [RESET |-> generateCloudParticles(PARTICLE_COUNT, seed, 0),
         ONE   |-> generateTextParticles(PARTICLE_COUNT, ctx, canvas(Texts.ONE), seed, k1),
         TWO   |-> generateTextParticles(PARTICLE_COUNT, ctx, canvas(Texts.TWO), seed, k2),
         THREE |-> generateTextParticles(PARTICLE_COUNT, ctx, canvas(Texts.THREE), seed, k3),
         LOVE  |-> generateTextParticles(PARTICLE_COUNT, ctx, canvas(Texts.LOVE), seed, k4)]

MORPH_SPEED_TENTHS == 1
LOVE_SPEED_TENTHS == 2

\* gesture === LOVE ? 0.2 : MORPH_SPEED, in tenths
Speed(gesture) == IF gesture = "LOVE" THEN LOVE_SPEED_TENTHS ELSE MORPH_SPEED_TENTHS

\* Math.sin and Math.cos at a whole number of quarter turns.
SinQuarter(q) == <<0, 1, 0, -1>>[(q % 4) + 1]
CosQuarter(q) == <<1, 0, -1, 0>>[(q % 4) + 1]

\* n / d radians, to the nearest quarter turn (PI / 2 = 1.571).
QuarterTurns(n, d) == Fround(n * 1000, d * 1571)

\* The quarter turns t * 0.5 and t * 0.3 can come to, t the elapsed time.
IdlePhases == 0..3

\* The idle motion of particle i: Math.sin(t * 0.5 + i) * 0.5 on x and
\* Math.cos(t * 0.3 + i * 0.5) * 0.5 on y, in twentieths of a world unit.
IdleX(px, i) == SinQuarter(px + QuarterTurns(i, 1)) * 10
IdleY(py, i) == CosQuarter(py + QuarterTurns(i, 2)) * 10

\* A step with the increment taken with the opposite sign; current, n, d and
\* speed as in Approach.
ApproachAway(current, n, d, speed) ==
    Fround(10 * d * current - (n - d * current) * speed, 10 * d)

\* current += (target - current) * speed, stored as a float32; target is
\* n / d quanta and speed is in tenths.
Approach(current, n, d, speed) ==
    Fround(10 * d * current + (n - d * current) * speed, 10 * d)

\* The arrays the render attributes were given are the RESET target's own
\* arrays (initialPositions, initialColors), so setXYZ writes into that target.
WriteAttributes(t, positions, colors) ==
    [t EXCEPT !.RESET = [positions |-> positions, colors |-> colors]]

\* The useFrame callback.  px, py: the quarter turns of t * 0.5 and t * 0.3.
MorphWith(px, py) ==
    LET gesture == handState.gesture
        targetData == IF gesture \in DOMAIN targets THEN targets[gesture]
                      ELSE targets.RESET
        speed == Speed(gesture)
        \* the idle motion, in twentieths of a world unit
        idle(k) == IF gesture # "RESET" THEN 0
                   ELSE CASE (k - 1) % 3 = 0 -> IdleX(px, (k - 1) \div 3)
                          [] (k - 1) % 3 = 1 -> IdleY(py, (k - 1) \div 3)
                          [] OTHER -> 0
        \* one world unit is PosScale / 10 quanta
        positions == [k \in 1..(PARTICLE_COUNT * 3) |->
                         Approach(currentPositions[k],
                                  200 * targetData.positions[k] + idle(k) * PosScale,
                                  200, speed)]
        colors == [k \in 1..(PARTICLE_COUNT * 3) |->
                      Approach(currentColors[k], targetData.colors[k], 1, speed)]
    IN  /\ currentPositions' = positions
        /\ currentColors' = colors
        /\ targets' = WriteAttributes(targets, positions, colors)

MorphStep ==
    /\ targets # << >>
    /\ IF handState.gesture = "RESET"
       THEN \E px \in IdlePhases, py \in IdlePhases : MorphWith(px, py)
       ELSE MorphWith(0, 0)
    /\ UNCHANGED handVars

\* App renders Experience with another handState (the Particles component
\* taken on its own: any HandState may be passed as its prop).
Rerender ==
    /\ \E h \in HandState : handState' = h
    /\ UNCHANGED <<gestureBuffer, lastEmittedGesture, frame, loop>>
    /\ UNCHANGED particleVars

-----------------------------------------------------------------------------
(* The components as constructed *)

\* HandManager alone: Experience not mounted.
InitHand ==
    /\ gestureBuffer = << >>
    /\ lastEmittedGesture = "RESET"
    /\ handState = [gesture |-> "RESET", isTracking |-> FALSE]
    /\ frame = FrameRecord(<< >>, NoFingers, "RESET", FALSE)
    /\ loop = "scheduled"
    /\ targets = << >>
    /\ currentPositions = << >>
    /\ currentColors = << >>

\* The whole App: HandManager's refs, App's state, and the Particles component
\* with its targets generated and the live arrays copied from the RESET target.
Init ==
    /\ gestureBuffer = << >>
    /\ lastEmittedGesture = "RESET"
    /\ handState = [gesture |-> "RESET", isTracking |-> FALSE]
    /\ frame = FrameRecord(<< >>, NoFingers, "RESET", FALSE)
    /\ loop = "scheduled"
    /\ \E seed \in Seeds, ctx \in BOOLEAN, lit \in BOOLEAN :
          /\ ctx \/ lit
          /\ targets = Targets(seed, ctx, lit)
    /\ currentPositions = targets.RESET.positions
    /\ currentColors = targets.RESET.colors

Next == PredictWebcamPoses \/ MorphStep

Spec == Init /\ [][Next]_vars

\* The HandManager component on its own, over every pose.
SpecHand == InitHand /\ [][PredictWebcam]_vars

\* The Particles component on its own.
NextParticles == MorphStep \/ Rerender

SpecParticles == Init /\ [][NextParticles]_vars

-----------------------------------------------------------------------------
(* Properties of the classifier and the debouncer, checked under SpecHand *)

Fingers == {"thumb", "index", "middle", "ring", "pinky"}

\* The ordered rule list of the design: the fingers a rule needs open, the
\* fingers it needs closed, and its label.
RuleList ==
    << [open |-> {"index", "middle", "ring", "pinky"}, closed |-> {}, label |-> "LOVE"],
       [open |-> {"index", "middle", "ring"}, closed |-> {"pinky"}, label |-> "THREE"],
       [open |-> {"thumb", "index", "middle"}, closed |-> {"ring", "pinky"},
        label |-> "THREE"],
       [open |-> {"index", "middle"}, closed |-> {"ring", "pinky"}, label |-> "TWO"],
       [open |-> {"thumb", "index"}, closed |-> {"middle", "ring", "pinky"},
        label |-> "TWO"],
       [open |-> {"index"}, closed |-> {"middle", "ring", "pinky"}, label |-> "ONE"] >>

RuleMatches(r, o) == (\A f \in r.open : o[f]) /\ (\A f \in r.closed : ~o[f])

FirstMatch(o) ==
    LET hits == {i \in 1..Len(RuleList) : RuleMatches(RuleList[i], o)}
    IN  IF hits = {} THEN "RESET"
        ELSE RuleList[CHOOSE i \in hits : \A j \in hits : i <= j].label

\* The frame record is that of a classified hand.
Classified == frame.hands > 0 /\ frame.landmarkCount >= LandmarkCount

Occurrences(buf, g) == Cardinality({i \in 1..Len(buf) : buf[i] = g})

EndsWithTwo(buf, g) ==
    Len(buf) >= 2 /\ buf[Len(buf)] = g /\ buf[Len(buf) - 1] = g

\* A step in which predictWebcam processed a frame to its end.
ProcessedStep ==
    /\ loop' = "scheduled"
    /\ gestureBuffer' # gestureBuffer \/ frame' # frame

\* C1: with a hand present, whatever the five finger states, the raw gesture is
\* one of the five labels, and it is the label of the first rule of the ordered
\* list that matches (RESET when none does).
C1_ClassifierFirstMatch ==
    Classified =>
        /\ frame.detectedGesture \in GestureType
        /\ frame.detectedGesture = FirstMatch(frame.open)

\* C1 witness: thumb and index open, the rest closed: the gun rule (TWO) is met
\* before the ONE rule.
C1_Witness ==
    /\ Classified
    /\ frame.open = [thumb |-> TRUE, index |-> TRUE, middle |-> FALSE,
                     ring |-> FALSE, pinky |-> FALSE]
    /\ frame.detectedGesture = "TWO"

C3_EmitsOnlyMajority ==
    frame.emitted =>
        /\ Len(gestureBuffer) >= 2
        /\ Len(gestureBuffer) <= BUFFER_SIZE
        /\ Occurrences(gestureBuffer, handState.gesture) >= 2
        /\ \A g \in GestureType :
              Occurrences(gestureBuffer, g) = 1 => handState.gesture # g

\* C3 witness: ONE, ONE, TWO, ONE: the single TWO frame sits in the buffer and
\* the update emitted nothing, ONE staying the emitted gesture.
C3_Witness ==
    /\ gestureBuffer = <<"ONE", "TWO", "ONE">>
    /\ lastEmittedGesture = "ONE"
    /\ handState.gesture = "ONE"
    /\ ~frame.emitted

\* C4 as stated: the emission is made by the update that completes a run of 2
\* consecutive frames of the emitted gesture.
C4_EmittedByRunOfTwo ==
    frame.emitted => EndsWithTwo(gestureBuffer, handState.gesture)

\* C4 amended: an update that emits emits the frame's own raw gesture g, which
\* differed from the last emitted one; the update that completes a run of 2
\* consecutive g frames leaves g as the last emitted gesture and emits exactly
\* when g was not emitted yet (so g is emitted once, by the first or by the
\* second frame of the run); every later frame of the run emits nothing.
C4_EmittedOnceByRunOfTwoAtLatest ==
    [][ProcessedStep =>
          LET g == frame'.detectedGesture
          IN  /\ gestureBuffer'[Len(gestureBuffer')] = g
              /\ frame'.emitted =>
                    /\ handState'.gesture = g
                    /\ lastEmittedGesture # g
                    /\ Occurrences(gestureBuffer', g) >= 2
              /\ EndsWithTwo(gestureBuffer', g) =>
                    /\ lastEmittedGesture' = g
                    /\ handState'.gesture = g
                    /\ frame'.emitted <=> lastEmittedGesture # g
              /\ EndsWithTwo(gestureBuffer, g) => ~frame'.emitted]_vars

\* C4 witness: TWO emitted by the second of two consecutive TWO frames, the
\* frame before them being another gesture.
C4_Witness ==
    /\ frame.emitted
    /\ gestureBuffer = <<"ONE", "TWO", "TWO">>
    /\ handState.gesture = "TWO"

\* C5 as stated: a frame with no hand, or with a hand whose landmark list has not
\* the 21 entries, raises no error, is classified RESET, has its label pushed,
\* and the next frame is scheduled.
C5_DegenerateFrameIsReset ==
    ((frame.hands = 0 \/ frame.landmarkCount # LandmarkCount)
       /\ frame # FrameRecord(<< >>, NoFingers, "RESET", FALSE))
        => /\ loop = "scheduled"
           /\ frame.detectedGesture = "RESET"
           /\ gestureBuffer # << >>
           /\ gestureBuffer[Len(gestureBuffer)] = "RESET"

-----------------------------------------------------------------------------
(* Properties of the targets and the morph, checked under SpecParticles *)

Components == 1..(3 * PARTICLE_COUNT)

Abs(n) == IF n < 0 THEN -n ELSE n

\* The live arrays are no cloud that generateCloudParticles returns: a frame has
\* moved them.
Moved ==
    \A seed \in Seeds :
        currentPositions # generateCloudParticles(PARTICLE_COUNT, seed, 0).positions

\* A frame rendered while a gesture other than RESET is held.
HeldMorphStep ==
    /\ handState' = handState
    /\ handState.gesture # "RESET"
    /\ <<currentPositions, currentColors>>' # <<currentPositions, currentColors>>

\* C6: no step changes the position or colour array of any gesture's target, the
\* RESET target whose arrays back the render attributes included.
C6_TargetsNeverChange == [][targets' = targets]_vars

\* C7 as stated: in a frame under a held gesture other than RESET, every
\* position and colour component gets strictly nearer to its target component
\* and stays on its side of it.
C7_StrictlyNearerEachStep ==
    [][HeldMorphStep =>
          LET t == targets[handState.gesture]
          IN  \A k \in Components :
                 /\ Abs(t.positions[k] - currentPositions'[k])
                      < Abs(t.positions[k] - currentPositions[k])
                 /\ (t.positions[k] - currentPositions'[k])
                      * (t.positions[k] - currentPositions[k]) >= 0
                 /\ Abs(t.colors[k] - currentColors'[k])
                      < Abs(t.colors[k] - currentColors[k])
                 /\ (t.colors[k] - currentColors'[k])
                      * (t.colors[k] - currentColors[k]) >= 0]_vars

\* The step (target - current) * speed comes to more than half a quantum of the
\* stored value (speed in tenths).
StepOutlastsRounding(target, current, speed) ==
    2 * Abs(target - current) * speed > 10

\* C7: in a frame under a held gesture other than RESET the target is left as
\* it was, and every position and colour component gets no farther from its
\* target component and stays on its side of it; it gets strictly nearer
\* whenever its step of 0.1 (0.2 for LOVE) of the distance outlasts the rounding
\* of the stored value.
C7_NearerUntilRounding ==
    [][HeldMorphStep =>
          LET g == handState.gesture
              t == targets[g]
              Nearer(target, current, next) ==
                 /\ Abs(target - next) <= Abs(target - current)
                 /\ (target - next) * (target - current) >= 0
                 /\ StepOutlastsRounding(target, current, Speed(g))
                      => Abs(target - next) < Abs(target - current)
          IN  /\ targets'[g] = t
              /\ \A k \in Components :
                    /\ Nearer(t.positions[k], currentPositions[k], currentPositions'[k])
                    /\ Nearer(t.colors[k], currentColors[k], currentColors'[k])]_vars

\* C7 witness: under LOVE a colour component has come more than half the way to
\* a full-intensity target component and rests short of it.
C7_Witness ==
    /\ handState.gesture = "LOVE"
    /\ \E k \in Components :
          /\ targets.LOVE.colors[k] = ColorScale
          /\ 2 * currentColors[k] >= ColorScale
          /\ currentColors[k] < ColorScale
          /\ ~StepOutlastsRounding(ColorScale, currentColors[k], Speed("LOVE"))

\* C8: each of the five targets has a position array and a colour array of
\* 3 * PARTICLE_COUNT entries, whichever way it was generated, and so have the
\* live arrays, at the start and after every frame.
C8_ArraysOfThreeTimesCount ==
    /\ DOMAIN targets = GestureType
    /\ \A g \in GestureType :
          /\ Len(targets[g].positions) = 3 * PARTICLE_COUNT
          /\ Len(targets[g].colors) = 3 * PARTICLE_COUNT
    /\ Len(currentPositions) = 3 * PARTICLE_COUNT
    /\ Len(currentColors) = 3 * PARTICLE_COUNT

\* C8 witness: the text targets come from the return without a 2D context, and
\* frames have moved the live arrays toward one of them.
C8_Witness ==
    /\ \A g \in GestureType \ {"RESET"} : targets[g] = NoContextField(PARTICLE_COUNT)
    /\ handState.gesture = "TWO"
    /\ Moved

-----------------------------------------------------------------------------
(* Properties of the whole App, checked under Spec *)

-----------------------------------------------------------------------------
(* Properties of the debouncer's rule, checked under SpecHand *)

\* The labels that are the most frequent of the buffer.
Modal(buf) ==
    {g \in GestureType :
        Occurrences(buf, g) > 0
          /\ \A h \in GestureType : Occurrences(buf, h) <= Occurrences(buf, g)}

\* C10: an update pushes the frame's raw gesture; it emits exactly when the most
\* frequent label of the buffer occurs more than BUFFER_SIZE / 2 times and is
\* not the last emitted label; the emitted state is that label with isTracking
\* the frame's hand-present flag; an update that does not emit leaves the last
\* emitted label and the stable state as they were.
C10_EmitIffNewMajority ==
    [][ProcessedStep =>
          /\ gestureBuffer' = Push(gestureBuffer, frame'.detectedGesture)
          /\ frame'.emitted <=>
                \E g \in Modal(gestureBuffer') :
                    /\ 2 * Occurrences(gestureBuffer', g) > BUFFER_SIZE
                    /\ g # lastEmittedGesture
          /\ frame'.emitted =>
                /\ handState'.gesture \in Modal(gestureBuffer')
                /\ handState'.isTracking = (frame'.hands > 0)
                /\ lastEmittedGesture' = handState'.gesture
          /\ ~frame'.emitted => UNCHANGED <<lastEmittedGesture, handState>>]_vars

\* C10 witness: after ONE was emitted, two frames without a hand: RESET is
\* emitted with isTracking false.
C10_Witness ==
    /\ frame.emitted
    /\ frame.hands = 0
    /\ gestureBuffer = <<"ONE", "RESET", "RESET">>
    /\ handState = [gesture |-> "RESET", isTracking |-> FALSE]

\* C11: the gesture of an emission is the raw gesture of the frame that
\* triggered it, never a label that only older buffer entries carry; so a
\* stable state whose gesture is ONE, TWO, THREE or LOVE has isTracking true.
C11_EmitsTheFramesOwnLabel ==
    /\ [](handState.gesture # "RESET" => handState.isTracking)
    /\ [][ProcessedStep /\ frame'.emitted =>
             /\ handState'.gesture = frame'.detectedGesture
             /\ gestureBuffer'[Len(gestureBuffer')] = handState'.gesture
             /\ handState'.gesture # "RESET" =>
                   frame'.hands > 0 /\ handState'.isTracking]_vars

\* C11 witness: THREE, ONE, THREE from the start: the third frame emits THREE,
\* which the oldest buffer entry carries too, with isTracking true.
C11_Witness ==
    /\ frame.emitted
    /\ frame.detectedGesture = "THREE"
    /\ gestureBuffer = <<"THREE", "ONE", "THREE">>
    /\ handState = [gesture |-> "THREE", isTracking |-> TRUE]

\* C12, for frames that show a gesture: when the buffer holds three labels
\* other than RESET, the last three processed frames each had a hand detected,
\* and the stable state has isTracking true (the hint is not displayed).
C12_TrackingAfterThreeHandFrames ==
    (Len(gestureBuffer) = BUFFER_SIZE
        /\ \A i \in 1..BUFFER_SIZE : gestureBuffer[i] # "RESET")
      => handState.isTracking

====
